---- MODULE Spec2Model ----
(***************************************************************************)
(* A model of the SnowState finite-state-machine engine                    *)
(* (src/src/stateMachine.ts).  One SnowState instance is modelled: its     *)
(* fields are the variables, and each public method is one action.         *)
(*                                                                         *)
(* User callbacks are not modelled as code.  Every invocation of a         *)
(* callback is appended to `calls`, the log of the callbacks the last      *)
(* operation invoked; `last` records that operation, its arguments and how *)
(* it ended ("ok", or the message of the error it threw).  A callback      *)
(* returns normally unless its name says that it throws or that it calls   *)
(* change before it returns.                                               *)
(***************************************************************************)
EXTENDS Integers, Sequences, FiniteSets, TLC

VARIABLES
    state,                \* this.state
    previousState,        \* this.previousState ("null" until the first change)
    stateObjects,         \* this.stateObjects: state name -> the keys of its state object
    defaultEventMethods,  \* this.defaultEventMethods: the event names that have a default
    addedEvents,          \* this.addedEvents
    stateHistory,         \* this.stateHistory
    isHistoryEnabled,     \* this.isHistoryEnabled
    maxHistorySize,       \* this.maxHistorySize
    stateStartTime,       \* this.stateStartTime
    stateTransitions,     \* this.stateTransitions: source -> (name -> records)
    wildcardTransitions,  \* this.wildcardTransitions: name -> records
    now,                  \* the clock Date.now() reads
    last,                 \* the last operation: its name, arguments and result
    calls                 \* the callbacks the last operation invoked, in order

cursor == <<state, previousState, stateHistory, stateStartTime>>
registry == <<stateObjects, defaultEventMethods, addedEvents>>
tables == <<stateTransitions, wildcardTransitions>>
historySettings == <<isHistoryEnabled, maxHistorySize>>
vars == <<state, previousState, stateObjects, defaultEventMethods, addedEvents,
          stateHistory, isHistoryEnabled, maxHistorySize, stateStartTime,
          stateTransitions, wildcardTransitions, now, last, calls>>

----------------------------------------------------------------------------
(* Bounds of the model. *)

\* The clock is read at 0..MaxClock.
MaxClock == 1
\* The transition tables hold at most MaxRecords records in total when the
\* choice among records is explored, and MaxFired when the effect of the
\* fired record is.
MaxRecords == 2
MaxFired == 1
\* The history buffer is explored up to MaxHistory entries.
MaxHistory == 1

----------------------------------------------------------------------------
(* Input domains. *)

\* The name given to the constructor.
InitialState == "idle"
\* The names add is called with.
StateNames == {"idle", "walk"}
\* A property name every plain object inherits from Object.prototype; it is
\* never passed to add.
InheritedNames == {"toString"}
\* A name that is neither registered nor inherited.
UnknownNames == {"ghost"}
Names == StateNames \cup InheritedNames \cup UnknownNames

\* In addTransition the wildcard source "*" is the flag `wildcard`.
SNOWSTATE_REFLEXIVE_TRANSITION_NAME == "="

NOT_DEFINED == 0
DEFINED == 1
DEFAULT == 2

TransitionNames == {"go", "stop"}
\* The condition functions transitions are added with: one that returns
\* true and one that returns false whenever it is called.
Conditions == {"returnsTrue", "returnsFalse"}
NoFunc == "undefined"
LeaveFuncs == {NoFunc, "leaveFunc"}
EnterFuncs == {NoFunc, "enterFunc"}
Datas == {"data"}
\* Callbacks that throw when they are called: the leave and enter functions
\* and the condition a call or a transition can be given, and the functions
\* of the state objects added under the names of ThrowingStates.
ThrowingFuncs == {"leaveThrows", "enterThrows"}
ThrowingCondition == "throws"
ThrowingStates == {"trap"}
\* Callbacks that call back into the engine: a leave and an enter function
\* whose body is `fsm.change(ReentryTarget)`.
ReenteringFuncs == {"leaveReenters", "enterReenters"}
ReentryTarget == "run"

\* The messages of the errors the engine throws, and the TypeError the
\* runtime throws on a property read of undefined.
ErrState == "State does not exist"
ErrSource == "Source state does not exist"
ErrDest == "Destination state does not exist"
ErrKey == "Cannot use existing method/property name"
ErrHistorySize == "History size must be at least 1"
ErrTime == "Time cannot be negative"
TypeError == "TypeError"
\* The exception a user callback throws; the engine has no try/catch.
Thrown == "exception of the callback"
Ok == "ok"

----------------------------------------------------------------------------
(* Plain-object and Map helpers. *)

EmptyMap == [k \in {} |-> {}]

\* An assignment that replaces the whole object by one with the key alone.
MapOnly(m, k, v) == [x \in {k} |-> v]

MapSet(m, k, v) == [x \in (DOMAIN m) \cup {k} |-> IF x = k THEN v ELSE m[x]]

\* `name in this.stateObjects`: an own key, or a key found on the prototype.
InStateObjects(name) == name \in DOMAIN stateObjects \/ name \in InheritedNames

\* stateExists(stateName)
stateExists(stateName) == InStateObjects(stateName)

\* `this.stateObjects[name]` is undefined.
IsUndefinedStateObject(name) == ~InStateObjects(name)

\* The keys under which `this.stateObjects[name]` holds a function: the keys
\* of the registered state object and the ones it inherits.
KeysOf(name) ==
    IF name \in DOMAIN stateObjects THEN stateObjects[name] \cup InheritedNames
    ELSE IF name \in InheritedNames THEN InheritedNames
    ELSE {}

\* One invocation of a user callback: which function (`fn`) of which state
\* object, transition list or default table (`owner`, with `idx` the position
\* of the record in a transition list, else 0), and the argument it received.
Call(fn, owner, idx, arg) == [fn |-> fn, owner |-> owner, idx |-> idx, arg |-> arg]

\* The invoked callback throws.
CallThrows(c) ==
    \/ c.fn \in ThrowingFuncs
    \/ c.owner \in ThrowingStates
    \/ c.fn = "condition" /\ c.arg = ThrowingCondition

AnyThrows(log) == \E k \in 1..Len(log) : CallThrows(log[k])

\* How a method that only invokes the callbacks of `log` ends.
Outcome(log) == [result |-> IF AnyThrows(log) THEN Thrown ELSE Ok, calls |-> log]

----------------------------------------------------------------------------
(* Numbers.  A value of the type `number` is an integer or NaN; every       *)
(* comparison with NaN is false.                                            *)

Num(v) == [nan |-> FALSE, value |-> v]

NaN == [nan |-> TRUE, value |-> 0]

\* `a > b`
Greater(a, b) == ~a.nan /\ ~b.nan /\ a.value > b.value

\* `a < b`
Less(a, b) == Greater(b, a)

\* `a >= b`
GreaterEq(a, b) == ~a.nan /\ ~b.nan /\ a.value >= b.value

----------------------------------------------------------------------------
(* change *)

\* The outcome of an operation that leaves the cursor as it is and invokes
\* no callback: one that throws before it touches the cursor, or a no-op.
Untouched(error) ==
    [result |-> error, calls |-> <<>>, state |-> state,
     previousState |-> previousState, stateHistory |-> stateHistory,
     stateStartTime |-> stateStartTime]

\* An optional call that falls back to the default method set for the
\* event, as the public enter() and leave() do.
OptionalCallOrDefault(fn, of) ==
    IF fn \in KeysOf(of)
    THEN <<Call(fn, of, 0, "undefined")>>
    ELSE IF fn \in defaultEventMethods
         THEN <<Call(fn, "defaultEventMethods", 0, "undefined")>>
         ELSE <<>>

\* `currentStateObject.leave?.()` and `newStateObject.enter?.()`: the
\* callback `fn` of the state object `of` is called, without arguments, if
\* the object has one; nothing is called if it has none.
OptionalCall(fn, of) ==
    IF fn \in KeysOf(of)
    THEN <<Call(fn, of, 0, "undefined")>>
    ELSE <<>>

\* `leaveFunc(data)` if a leave function is given, else
\* `currentStateObject.leave?.()`, with `current` the value of this.state.
LeavePhaseAt(current, leaveFunc, data) ==
    IF leaveFunc # NoFunc
    THEN <<Call(leaveFunc, "change", 0, data)>>
    ELSE OptionalCall("leave", current)

LeavePhase(leaveFunc, data) == LeavePhaseAt(state, leaveFunc, data)

\* `enterFunc(data)` if an enter function is given, else
\* `newStateObject.enter?.()`.
EnterPhase(stateName, enterFunc, data) ==
    IF enterFunc # NoFunc
    THEN <<Call(enterFunc, "change", 0, data)>>
    ELSE OptionalCall("enter", stateName)

\* A push that drops the entry just pushed, instead of the oldest one, when
\* the buffer exceeds the maximum size (pop() for shift()).
PushHistoryPopped ==
    IF isHistoryEnabled
    THEN IF Greater(Num(Len(stateHistory) + 1), maxHistorySize)
         THEN stateHistory
         ELSE Append(stateHistory, state)
    ELSE stateHistory

\* The history `history` after the state `left` is pushed, and the oldest
\* entry shifted out when the buffer exceeds the maximum size.
Push(history, left) ==
    IF isHistoryEnabled
    THEN LET pushed == Append(history, left)
         IN  IF Greater(Num(Len(pushed)), maxHistorySize) THEN Tail(pushed) ELSE pushed
    ELSE history

\* The history after the state being left is pushed.
PushHistory == Push(stateHistory, state)

\* `this.previousState = this.state`
NewPreviousState == state

\* A change that keeps the old entry timestamp.
StaleStateStartTime == stateStartTime

\* `this.stateStartTime = Date.now()`
NewStateStartTime == now

\* A change whose leave callback throws after the bookkeeping of lines
\* 175-187 was done.
AbortedAfterBookkeeping(log) ==
    [result |-> Thrown, calls |-> log, state |-> state,
     previousState |-> NewPreviousState, stateHistory |-> PushHistory,
     stateStartTime |-> NewStateStartTime]

\* The outcome of a change whose leave callback throws: the exception leaves
\* change at line 167 or 171, before any field is assigned.
Aborted(log) ==
    [result |-> Thrown, calls |-> log, state |-> state,
     previousState |-> previousState, stateHistory |-> stateHistory,
     stateStartTime |-> stateStartTime]

\* A change that restores the cursor when its enter callback throws.
RolledBack(stateName, log) ==
    IF AnyThrows(log)
    THEN [result |-> Thrown, calls |-> log, state |-> state,
          previousState |-> previousState, stateHistory |-> stateHistory,
          stateStartTime |-> stateStartTime]
    ELSE [result |-> Ok, calls |-> log, state |-> stateName,
          previousState |-> NewPreviousState, stateHistory |-> PushHistory,
          stateStartTime |-> NewStateStartTime]

\* The outcome of a change whose leave phase returned: the fields are
\* assigned before the enter callback is called, so they keep their new
\* values when it throws.
Entered(stateName, log) ==
    [result |-> IF AnyThrows(log) THEN Thrown ELSE Ok,
     calls |-> log,
     state |-> stateName,
     previousState |-> NewPreviousState,
     stateHistory |-> PushHistory,
     stateStartTime |-> NewStateStartTime]

\* Lines 175-187 with the destination assigned to this.state before
\* this.state is read.
BookkeepingStateFirst(o, stateName) ==
    [o EXCEPT !.previousState = stateName,
              !.stateHistory = Push(o.stateHistory, stateName),
              !.state = stateName,
              !.stateStartTime = now]

\* Lines 175-187 when the machine is as the outcome `o` describes:
\* this.state is read there, after the leave callback has returned.
Bookkeeping(o, stateName) ==
    [o EXCEPT !.previousState = o.state,
              !.stateHistory = Push(o.stateHistory, o.state),
              !.state = stateName,
              !.stateStartTime = now]

\* What a callback reads with getCurrentState(), getPreviousState() and
\* historyGet().
Seen(s, p, h) == [state |-> s, previousState |-> p, stateHistory |-> h]

\* The machine as it is when change is called, before any callback is
\* invoked; `seen` logs what each invoked callback reads.
Begin ==
    [result |-> Ok, calls |-> <<>>, seen |-> <<>>, state |-> state,
     previousState |-> previousState, stateHistory |-> stateHistory,
     stateStartTime |-> stateStartTime]

RECURSIVE changeAt(_, _, _, _, _)

\* A callback is invoked while the machine is as `o` describes: it throws,
\* or calls change(ReentryTarget) and returns or throws as that call does,
\* or returns.
Invoke(o, call) ==
    LET called == [o EXCEPT !.calls = Append(@, call),
                            !.seen = Append(@, Seen(o.state, o.previousState,
                                                    o.stateHistory))]
    IN  IF CallThrows(call)
        THEN [called EXCEPT !.result = Thrown]
        ELSE IF call.fn \in ReenteringFuncs
        THEN changeAt(called, ReentryTarget, NoFunc, NoFunc, "undefined")
        ELSE called

\* The callback of a phase, if it has one, is invoked.
InvokePhase(o, phase) == IF phase = <<>> THEN o ELSE Invoke(o, phase[1])

\* change(stateName, leaveFunc, enterFunc, data) called while the machine is
\* as `o` describes, with callbacks that may call change themselves.
changeAt(o, stateName, leaveFunc, enterFunc, data) ==
    IF ~InStateObjects(stateName)
    THEN [o EXCEPT !.result = ErrState]
    ELSE IF leaveFunc = NoFunc /\ IsUndefinedStateObject(o.state)
    THEN [o EXCEPT !.result = TypeError]
    ELSE LET left == InvokePhase(o, LeavePhaseAt(o.state, leaveFunc, data))
         IN  IF left.result # Ok
             THEN left
             ELSE InvokePhase(Bookkeeping(left, stateName),
                              EnterPhase(stateName, enterFunc, data))

\* change(stateName, leaveFunc, enterFunc, data).  The callbacks return
\* normally or throw; a leave or enter function of ReenteringFuncs calls
\* change before it returns.
change(stateName, leaveFunc, enterFunc, data) ==
    IF leaveFunc \in ReenteringFuncs \/ enterFunc \in ReenteringFuncs
    THEN changeAt(Begin, stateName, leaveFunc, enterFunc, data)
    ELSE IF ~InStateObjects(stateName)
    THEN Untouched(ErrState)
    ELSE IF leaveFunc = NoFunc /\ IsUndefinedStateObject(state)
    THEN Untouched(TypeError)   \* `currentStateObject.leave` read of undefined
    ELSE LET leave == LeavePhase(leaveFunc, data)
         IN  IF AnyThrows(leave)
             THEN Aborted(leave)
             ELSE Entered(stateName, leave \o EnterPhase(stateName, enterFunc, data))

\* The cursor and the call log take the values of an outcome.
Commit(o, log) ==
    /\ state' = o.state
    /\ previousState' = o.previousState
    /\ stateHistory' = o.stateHistory
    /\ stateStartTime' = o.stateStartTime
    /\ calls' = log \o o.calls

Change(stateName, leaveFunc, enterFunc, data) ==
    LET o == change(stateName, leaveFunc, enterFunc, data)
    IN  /\ Commit(o, <<>>)
        /\ last' = [op |-> "change", name |-> stateName, leaveFunc |-> leaveFunc,
                    enterFunc |-> enterFunc, data |-> data, result |-> o.result]
        /\ UNCHANGED <<registry, tables, historySettings, now>>

----------------------------------------------------------------------------
(* change, with what its callbacks observe *)

\* The leave callback runs before any field is assigned.
LeaveSees == Seen(state, previousState, stateHistory)

\* An enter callback that runs before `this.state = stateName`.
EnterSeesBeforeCommit(stateName) == Seen(state, NewPreviousState, PushHistory)

\* The enter callback runs after previousState, stateHistory and state are
\* assigned.
EnterSees(stateName) == Seen(stateName, NewPreviousState, PushHistory)

\* The callbacks a change invokes, in order, each with what it observes,
\* whether the change returns or throws.  The callbacks invoked by the
\* change a callback calls observe the machine as that nested call has it.
observed(stateName, leaveFunc, enterFunc, data) ==
    LET o == change(stateName, leaveFunc, enterFunc, data)
        n == Len(LeavePhase(leaveFunc, data))
    IN  IF leaveFunc \in ReenteringFuncs \/ enterFunc \in ReenteringFuncs
        THEN [k \in 1..Len(o.calls) |-> [call |-> o.calls[k], sees |-> o.seen[k]]]
        ELSE [k \in 1..Len(o.calls) |->
                 [call |-> o.calls[k],
                  sees |-> IF k <= n THEN LeaveSees ELSE EnterSees(stateName)]]

\* change, logging what the callbacks observe.
ChangeObserved(stateName, leaveFunc, enterFunc, data) ==
    LET o == change(stateName, leaveFunc, enterFunc, data)
    IN  /\ state' = o.state
        /\ previousState' = o.previousState
        /\ stateHistory' = o.stateHistory
        /\ stateStartTime' = o.stateStartTime
        /\ calls' = observed(stateName, leaveFunc, enterFunc, data)
        /\ last' = [op |-> "change", name |-> stateName, leaveFunc |-> leaveFunc,
                    enterFunc |-> enterFunc, data |-> data, result |-> o.result]
        /\ UNCHANGED <<registry, tables, historySettings, now>>

----------------------------------------------------------------------------
(* State and event registration *)

\* The fields every instance carries as own properties after construction.
InstanceFields ==
    {"state", "defaultEventMethods", "stateObjects", "previousState",
     "stateHistory", "isHistoryEnabled", "maxHistorySize", "stateStartTime",
     "addedEvents", "stateTransitions", "wildcardTransitions",
     "emptyLeaveMethod"}

\* The methods of the class: properties of the prototype, not of the instance.
PrototypeMethods ==
    {"add", "change", "stateIs", "stateExists", "getStates", "getCurrentState",
     "getPreviousState", "historyEnable", "historyDisable", "historyIsEnabled",
     "historySetMaxSize", "historyGetMaxSize", "historyGet", "getTime",
     "setTime", "enter", "leave", "eventSetDefaultMethod", "eventExists",
     "eventGetCurrentLeaveMethod", "addTransition", "trigger",
     "addWildcardTransition", "addReflexiveTransition", "transitionExists",
     "checkForIllegalKeys", "addMethodToStateMachine"}

\* The event methods installed on the instance by addMethodToStateMachine.
InstalledEvents == addedEvents \ {"enter", "leave"}

\* `Object.getOwnPropertyDescriptor(this, key)` is defined.
HasOwnProperty(key) == key \in InstanceFields \cup InstalledEvents

\* `this[key]` is truthy, for the keys that pass checkForIllegalKeys.
HasTruthyProperty(key) ==
    key \in PrototypeMethods \cup InstalledEvents \cup InheritedNames

\* The keys checkForIllegalKeys rejects.
IllegalKeys(eventNames) ==
    {key \in eventNames : HasOwnProperty(key) /\ key \notin addedEvents}

\* addedEvents after addMethodToStateMachine ran for every name in eventNames.
addMethodToStateMachine(eventNames) ==
    addedEvents \cup {e \in eventNames : ~HasTruthyProperty(e)}

Add(stateName, stateObject) ==
    /\ IF IllegalKeys(stateObject) # {}
       THEN /\ last' = [op |-> "add", name |-> stateName, keys |-> stateObject,
                        result |-> ErrKey]
            /\ UNCHANGED registry
       ELSE /\ stateObjects' = MapSet(stateObjects, stateName, stateObject)
            /\ addedEvents' = addMethodToStateMachine(stateObject)
            /\ last' = [op |-> "add", name |-> stateName, keys |-> stateObject,
                        result |-> Ok]
            /\ UNCHANGED defaultEventMethods
    /\ calls' = <<>>
    /\ UNCHANGED <<cursor, tables, historySettings, now>>

EventSetDefaultMethod(eventName) ==
    /\ IF IllegalKeys({eventName}) # {}
       THEN /\ last' = [op |-> "eventSetDefaultMethod", name |-> eventName,
                        result |-> ErrKey]
            /\ UNCHANGED registry
       ELSE /\ defaultEventMethods' = defaultEventMethods \cup {eventName}
            /\ addedEvents' = addMethodToStateMachine({eventName})
            /\ last' = [op |-> "eventSetDefaultMethod", name |-> eventName,
                        result |-> Ok]
            /\ UNCHANGED stateObjects
    /\ calls' = <<>>
    /\ UNCHANGED <<cursor, tables, historySettings, now>>

\* `this.defaultEventMethods[eventName]` is truthy.
HasDefault(eventName) ==
    eventName \in defaultEventMethods \cup InheritedNames

\* What the installed method `this[eventName]()` does.
dispatch(eventName) ==
    IF IsUndefinedStateObject(state)
    THEN [result |-> TypeError, calls |-> <<>>]   \* `currentState[eventName]` read of undefined
    ELSE IF eventName \in KeysOf(state)
    THEN Outcome(<<Call(eventName, state, 0, "undefined")>>)
    ELSE IF HasDefault(eventName)
    THEN Outcome(<<Call(eventName, "defaultEventMethods", 0, "undefined")>>)
    ELSE [result |-> Ok, calls |-> <<>>]

Dispatch(eventName) ==
    /\ eventName \in InstalledEvents
    /\ LET o == dispatch(eventName)
       IN  /\ calls' = o.calls
           /\ last' = [op |-> "dispatch", name |-> eventName, result |-> o.result]
    /\ UNCHANGED <<cursor, registry, tables, historySettings, now>>

\* enter(data) and leave(data), `fn` being "enter" or "leave": the callback
\* of the current state is called with data, else the default without
\* arguments.
lifecycle(fn, data) ==
    IF IsUndefinedStateObject(state)
    THEN [result |-> TypeError, calls |-> <<>>]   \* `currentState.enter` read of undefined
    ELSE IF fn \in KeysOf(state)
    THEN Outcome(<<Call(fn, state, 0, data)>>)
    ELSE IF HasDefault(fn)
    THEN Outcome(<<Call(fn, "defaultEventMethods", 0, "undefined")>>)
    ELSE [result |-> Ok, calls |-> <<>>]

Enter(data) ==
    /\ LET o == lifecycle("enter", data)
       IN  /\ calls' = o.calls
           /\ last' = [op |-> "enter", data |-> data, result |-> o.result]
    /\ UNCHANGED <<cursor, registry, tables, historySettings, now>>

Leave(data) ==
    /\ LET o == lifecycle("leave", data)
       IN  /\ calls' = o.calls
           /\ last' = [op |-> "leave", data |-> data, result |-> o.result]
    /\ UNCHANGED <<cursor, registry, tables, historySettings, now>>

\* on(event, callback): the class has no member `on`, neither as a field
\* nor as a method, so the call is a call of undefined.
On(event, callback) ==
    /\ last' = [op |-> "on", name |-> event, callback |-> callback,
                result |-> TypeError]
    /\ calls' = <<>>
    /\ UNCHANGED <<cursor, registry, tables, historySettings, now>>

eventExists(eventName) ==
    IF ~IsUndefinedStateObject(state) /\ eventName \in KeysOf(state)
    THEN DEFINED
    ELSE IF HasDefault(eventName)
    THEN DEFAULT
    ELSE NOT_DEFINED

----------------------------------------------------------------------------
(* Transitions *)

TransitionRecord(destState, condition, leaveFunc, enterFunc) ==
    [destState |-> destState, condition |-> condition,
     leaveFunc |-> leaveFunc, enterFunc |-> enterFunc]

\* The positions <<key, i>> of the records of a map from keys to lists.
Positions(m) == UNION {{<<k, i>> : i \in 1..Len(m[k])} : k \in DOMAIN m}

\* The number of records in both transition tables.
RecordCount ==
    Cardinality(UNION {{<<s, p>> : p \in Positions(stateTransitions[s])} :
                           s \in DOMAIN stateTransitions})
        + Cardinality(Positions(wildcardTransitions))

\* The records trigger scans first: `this.stateTransitions.get(this.state)`,
\* then `.get(transitionName)`; the empty list when either is undefined.
SpecificRecords(transitionName) ==
    IF state \in DOMAIN stateTransitions /\ transitionName \in DOMAIN stateTransitions[state]
    THEN stateTransitions[state][transitionName]
    ELSE <<>>

\* `this.wildcardTransitions.get(transitionName)`, or the empty list.
WildcardRecords(transitionName) ==
    IF transitionName \in DOMAIN wildcardTransitions
    THEN wildcardTransitions[transitionName]
    ELSE <<>>

\* The table after a record is pushed on the list of (source, name).
PushRecord(table, source, name, record) ==
    LET inner == IF source \in DOMAIN table THEN table[source] ELSE EmptyMap
        list == IF name \in DOMAIN inner THEN inner[name] ELSE <<>>
    IN  MapSet(table, source, MapSet(inner, name, Append(list, record)))

\* The second loop of addTransition: the record is pushed for each source.
RECURSIVE PushAll(_, _, _, _)
PushAll(table, sources, name, record) ==
    IF sources = <<>> THEN table
    ELSE PushAll(PushRecord(table, Head(sources), name, record),
                 Tail(sources), name, record)

\* The first loop of addTransition, from the i-th source on: the error
\* thrown and the position of the source it is thrown at, or Ok.
RECURSIVE CheckStates(_, _, _)
CheckStates(sources, destState, i) ==
    IF i > Len(sources) THEN [result |-> Ok, at |-> 0]
    ELSE IF ~InStateObjects(sources[i]) THEN [result |-> ErrSource, at |-> i]
    ELSE IF ~InStateObjects(destState) THEN [result |-> ErrDest, at |-> i]
    ELSE CheckStates(sources, destState, i + 1)

\* addTransition: `wildcard` stands for sourceState === "*"; otherwise
\* `sources` is the array of source states (a single name is an array of one).
AddTransition(op, transitionName, wildcard, sources, destState, condition, leaveFunc, enterFunc) ==
    LET record == TransitionRecord(destState, condition, leaveFunc, enterFunc)
        check == IF wildcard THEN [result |-> Ok, at |-> 0]
                 ELSE CheckStates(sources, destState, 1)
    IN  /\ IF wildcard
           THEN /\ wildcardTransitions' =
                       MapSet(wildcardTransitions, transitionName,
                              Append(WildcardRecords(transitionName), record))
                /\ UNCHANGED stateTransitions
           ELSE IF check.result # Ok
           THEN UNCHANGED tables
           ELSE /\ stateTransitions' = PushAll(stateTransitions, sources, transitionName, record)
                /\ UNCHANGED wildcardTransitions
        /\ last' = [op |-> op, name |-> transitionName, at |-> check.at,
                    result |-> check.result]
        /\ calls' = <<>>
        /\ UNCHANGED <<cursor, registry, historySettings, now>>

AddWildcardTransition(transitionName, destState, condition, leaveFunc, enterFunc) ==
    AddTransition("addWildcardTransition", transitionName, TRUE, <<>>, destState,
                  condition, leaveFunc, enterFunc)

AddReflexiveTransition(transitionName, sourceState, condition, leaveFunc, enterFunc) ==
    AddTransition("addReflexiveTransition", transitionName, FALSE, <<sourceState>>,
                  SNOWSTATE_REFLEXIVE_TRANSITION_NAME, condition, leaveFunc, enterFunc)

----------------------------------------------------------------------------
(* trigger *)

\* A scan that fires a record whatever its condition returns.
PassesUnchecked(record) == TRUE

\* `!transition.condition || transition.condition()`
Passes(record) ==
    record.condition = NoFunc \/ record.condition = "returnsTrue"

\* A scan that keeps going and fires the last record that passes.
LastPassing(records) ==
    IF \E i \in 1..Len(records) : Passes(records[i])
    THEN CHOOSE i \in 1..Len(records) :
             /\ Passes(records[i])
             /\ \A j \in (i + 1)..Len(records) : ~Passes(records[j])
    ELSE 0

\* `transition.condition()` throws.
Throws(record) == record.condition = ThrowingCondition

\* The position of the first record of the list whose condition throws, 0 if
\* none does.
FirstThrowing(records) ==
    IF \E i \in 1..Len(records) : Throws(records[i])
    THEN CHOOSE i \in 1..Len(records) :
             /\ Throws(records[i])
             /\ \A j \in 1..(i - 1) : ~Throws(records[j])
    ELSE 0

\* Position a is met before position b in a scan (0: not in the list).
Before(a, b) == a > 0 /\ (b = 0 \/ a < b)

\* The position of the first record of the list that passes, 0 if none does.
FirstPassing(records) ==
    IF \E i \in 1..Len(records) : Passes(records[i])
    THEN CHOOSE i \in 1..Len(records) :
             /\ Passes(records[i])
             /\ \A j \in 1..(i - 1) : ~Passes(records[j])
    ELSE 0

\* The conditions called while the first n records of a list are scanned.
ConditionCalls(records, listName, n) ==
    SelectSeq([i \in 1..n |-> Call("condition", listName, i, records[i].condition)],
              LAMBDA c : c.arg # NoFunc)

\* A trigger that scans the wildcard list before the specific list.
ResolveWildcardFirst(transitionName) ==
    LET specific == FirstPassing(SpecificRecords(transitionName))
        wildcard == FirstPassing(WildcardRecords(transitionName))
    IN  IF wildcard > 0 THEN [list |-> "wildcard", idx |-> wildcard, thrown |-> FALSE]
        ELSE IF specific > 0 THEN [list |-> "specific", idx |-> specific, thrown |-> FALSE]
        ELSE [list |-> "none", idx |-> 0, thrown |-> FALSE]

\* The list whose record trigger fires, and the record's position in it:
\* the specific list is scanned first, the wildcard list only when no
\* specific record passes.  A condition that throws ends the scan at its
\* record (`thrown`), which is not fired.
Resolve(transitionName) ==
    LET specific == FirstPassing(SpecificRecords(transitionName))
        wildcard == FirstPassing(WildcardRecords(transitionName))
        specificThrows == FirstThrowing(SpecificRecords(transitionName))
        wildcardThrows == FirstThrowing(WildcardRecords(transitionName))
    IN  IF Before(specificThrows, specific)
        THEN [list |-> "specific", idx |-> specificThrows, thrown |-> TRUE]
        ELSE IF specific > 0
        THEN [list |-> "specific", idx |-> specific, thrown |-> FALSE]
        ELSE IF Before(wildcardThrows, wildcard)
        THEN [list |-> "wildcard", idx |-> wildcardThrows, thrown |-> TRUE]
        ELSE IF wildcard > 0
        THEN [list |-> "wildcard", idx |-> wildcard, thrown |-> FALSE]
        ELSE [list |-> "none", idx |-> 0, thrown |-> FALSE]

\* The conditions trigger calls before it fires `fired` (or gives up).
ScanCalls(transitionName, fired) ==
    LET specific == SpecificRecords(transitionName)
        wildcard == WildcardRecords(transitionName)
    IN  IF fired.list = "specific"
        THEN ConditionCalls(specific, "specific", fired.idx)
        ELSE ConditionCalls(specific, "specific", Len(specific))
                 \o ConditionCalls(wildcard, "wildcard",
                                   IF fired.list = "wildcard" THEN fired.idx
                                   ELSE Len(wildcard))

\* A trigger that hands the destination of the record to change as it is.
UnresolvedDest(record) == record.destState

\* `transition.destState == "=" ? this.state : transition.destState`
ResolveDest(record) ==
    IF record.destState = SNOWSTATE_REFLEXIVE_TRANSITION_NAME
    THEN state
    ELSE record.destState

\* The change trigger performs for the record it fires.
FireRecord(record, data) ==
    change(ResolveDest(record), record.leaveFunc, record.enterFunc, data)

\* trigger(transitionName, data): the outcome of the change of the fired
\* record, or the untouched cursor when no record passes or a condition
\* throws.
trigger(transitionName, data) ==
    LET fired == Resolve(transitionName)
    IN  IF fired.thrown
        THEN Untouched(Thrown)
        ELSE IF fired.list = "specific"
        THEN FireRecord(SpecificRecords(transitionName)[fired.idx], data)
        ELSE IF fired.list = "wildcard"
        THEN FireRecord(WildcardRecords(transitionName)[fired.idx], data)
        ELSE Untouched(Ok)

Trigger(transitionName, data) ==
    LET fired == Resolve(transitionName)
        o == trigger(transitionName, data)
    IN  /\ Commit(o, ScanCalls(transitionName, fired))
        /\ last' = [op |-> "trigger", name |-> transitionName, data |-> data,
                    list |-> fired.list, idx |-> fired.idx, result |-> o.result]
        /\ UNCHANGED <<registry, tables, historySettings, now>>

----------------------------------------------------------------------------
(* History, the clock and the environment *)

HistoryEnable ==
    /\ isHistoryEnabled' = TRUE
    /\ last' = [op |-> "historyEnable", result |-> Ok]
    /\ calls' = <<>>
    /\ UNCHANGED <<cursor, registry, tables, maxHistorySize, now>>

HistoryDisable ==
    /\ isHistoryEnabled' = FALSE
    /\ last' = [op |-> "historyDisable", result |-> Ok]
    /\ calls' = <<>>
    /\ UNCHANGED <<cursor, registry, tables, maxHistorySize, now>>

\* A slice that keeps the oldest entries (`h.slice(0, size)`).
SliceFirst(h, size) ==
    IF Len(h) > size THEN SubSeq(h, 1, size) ELSE h

\* `h.slice(-size)` for an integer size >= 1: the last `size` entries of h,
\* all of h when it has no more than that.
SliceLast(h, size) ==
    IF Len(h) > size THEN SubSeq(h, Len(h) - size + 1, Len(h)) ELSE h

\* A historySetMaxSize that rejects only the sizes below 0.
historySetMaxSizeFromZero(size) ==
    IF Less(size, Num(0))
    THEN [result |-> ErrHistorySize, maxHistorySize |-> maxHistorySize,
          stateHistory |-> stateHistory]
    ELSE [result |-> Ok, maxHistorySize |-> size,
          stateHistory |-> IF Greater(Num(Len(stateHistory)), size)
                           THEN SliceLast(stateHistory, size.value)
                           ELSE stateHistory]

\* historySetMaxSize(size): the result, the cap and the buffer it leaves.
historySetMaxSize(size) ==
    IF Less(size, Num(1))
    THEN [result |-> ErrHistorySize, maxHistorySize |-> maxHistorySize,
          stateHistory |-> stateHistory]
    ELSE [result |-> Ok, maxHistorySize |-> size,
          stateHistory |-> IF Greater(Num(Len(stateHistory)), size)
                           THEN SliceLast(stateHistory, size.value)
                           ELSE stateHistory]

HistorySetMaxSize(size) ==
    /\ LET o == historySetMaxSize(size)
       IN  /\ maxHistorySize' = o.maxHistorySize
           /\ stateHistory' = o.stateHistory
           /\ last' = [op |-> "historySetMaxSize", size |-> size, result |-> o.result]
    /\ calls' = <<>>
    /\ UNCHANGED <<state, previousState, stateStartTime, registry, tables,
                   isHistoryEnabled, now>>

\* Time passes between two operations.
Tick ==
    /\ now < MaxClock
    /\ now' = now + 1
    /\ last' = [op |-> "tick", result |-> Ok]
    /\ calls' = <<>>
    /\ UNCHANGED <<cursor, registry, tables, historySettings>>

\* getTime(): `Date.now() - this.stateStartTime`
getTime == now - stateStartTime

\* A setTime that places the entry timestamp after the clock reading.
setTimeAhead(time) ==
    IF time < 0
    THEN [result |-> ErrTime, stateStartTime |-> stateStartTime]
    ELSE [result |-> Ok, stateStartTime |-> now + time]

\* setTime(time): the result and the entry timestamp it leaves.
setTime(time) ==
    IF time < 0
    THEN [result |-> ErrTime, stateStartTime |-> stateStartTime]
    ELSE [result |-> Ok, stateStartTime |-> now - time]

SetTime(time) ==
    /\ LET o == setTime(time)
       IN  /\ stateStartTime' = o.stateStartTime
           /\ last' = [op |-> "setTime", time |-> time, result |-> o.result]
    /\ calls' = <<>>
    /\ UNCHANGED <<state, previousState, stateHistory, registry, tables,
                   historySettings, now>>

----------------------------------------------------------------------------
(* The machine after `new SnowState(InitialState)`. *)

DefaultMaxHistorySize == 10

Init ==
    /\ state = InitialState
    /\ previousState = "null"
    /\ stateObjects = EmptyMap
    /\ defaultEventMethods = {}
    /\ addedEvents = {"enter", "leave"}
    /\ stateHistory = <<>>
    /\ isHistoryEnabled = FALSE
    /\ maxHistorySize = Num(DefaultMaxHistorySize)
    /\ stateStartTime = 0
    /\ stateTransitions = EmptyMap
    /\ wildcardTransitions = EmptyMap
    /\ now = 0
    /\ last = [op |-> "new", result |-> Ok]
    /\ calls = <<>>

----------------------------------------------------------------------------
(* Input domains of the specifications. *)

\* State objects with the lifecycle callbacks only.
LifecycleObjects == {{}, {"enter", "leave"}}

\* The history buffer stays within the explored length.
HistoryRoom == Len(stateHistory') <= MaxHistory

----------------------------------------------------------------------------
(* Spec: states are added and the machine is driven by change. *)

Next ==
    \/ \E n \in StateNames, o \in LifecycleObjects : Add(n, o)
    \/ \E n \in Names, l \in LeaveFuncs, e \in EnterFuncs, d \in Datas :
           Change(n, l, e, d) /\ HistoryRoom
    \/ HistoryEnable
    \/ Tick

Spec == Init /\ [][Next]_vars

----------------------------------------------------------------------------
(* SpecTrigger: which record trigger fires.  The records differ in their   *)
(* destination and their condition; the states carry both lifecycle        *)
(* callbacks.                                                              *)

NextTrigger ==
    \/ \E n \in StateNames : Add(n, {"enter", "leave"})
    \/ \E dest \in StateNames, c \in Conditions \cup {NoFunc} :
           /\ AddTransition("addTransition", "go", FALSE, <<InitialState>>, dest, c,
                            NoFunc, NoFunc)
           /\ RecordCount' <= MaxRecords
    \/ \E dest \in StateNames, c \in Conditions \cup {NoFunc} :
           /\ AddWildcardTransition("go", dest, c, NoFunc, NoFunc)
           /\ RecordCount' <= MaxRecords
    \/ \E t \in TransitionNames, d \in Datas : Trigger(t, d) /\ HistoryRoom
    \/ HistoryEnable
    \/ Tick

SpecTrigger == Init /\ [][NextTrigger]_vars

----------------------------------------------------------------------------
(* SpecFire: what adding and firing a transition does.  The records differ *)
(* in their destination and their leave and enter functions; the sources   *)
(* and destinations include names that were never added.                   *)

\* The source arrays addTransition is called with.
SourceArrays ==
    {<<a>> : a \in Names \ {"walk"}} \cup {<<"idle", b>> : b \in {"walk", "ghost"}}

DestStates == {"walk", "ghost", SNOWSTATE_REFLEXIVE_TRANSITION_NAME}

NextFire ==
    \/ \E n \in StateNames : Add(n, {"enter", "leave"})
    \/ \E src \in SourceArrays, dest \in DestStates,
          l \in LeaveFuncs, e \in EnterFuncs :
           /\ AddTransition("addTransition", "go", FALSE, src, dest, NoFunc, l, e)
           /\ RecordCount' <= MaxFired
    \/ \E dest \in DestStates, l \in LeaveFuncs, e \in EnterFuncs :
           /\ AddWildcardTransition("go", dest, NoFunc, l, e)
           /\ RecordCount' <= MaxFired
    \/ \E src \in Names, l \in LeaveFuncs, e \in EnterFuncs :
           /\ AddReflexiveTransition("go", src, NoFunc, l, e)
           /\ RecordCount' <= MaxFired
    \/ \E d \in Datas : Trigger("go", d) /\ HistoryRoom
    \/ HistoryEnable
    \/ Tick

SpecFire == Init /\ [][NextFire]_vars

----------------------------------------------------------------------------
(* SpecEvents: states with custom events are added, defaults are set and   *)
(* the installed events are dispatched.                                    *)

\* The state objects add is called with: custom events, a key that is the
\* name of a method of the engine and a key that is the name of a field.
EventObjects ==
    {{}, {"update"}, {"enter", "update"}, {"change"}, {"update", "state"}}

\* The event names eventSetDefaultMethod is called with.
DefaultNames == {"update", "draw", "trigger", "previousState"}

NextEvents ==
    \/ \E n \in StateNames, o \in EventObjects : Add(n, o)
    \/ \E e \in DefaultNames : EventSetDefaultMethod(e)
    \/ \E e \in DefaultNames : Dispatch(e)
    \/ \E n \in StateNames : Change(n, NoFunc, NoFunc, "data")

SpecEvents == Init /\ [][NextEvents]_vars

----------------------------------------------------------------------------
(* SpecHistory: the history buffer under change, trigger, historyEnable,    *)
(* historyDisable and historySetMaxSize.                                    *)

\* The largest integer historySetMaxSize is called with.
MaxSize == 2
\* The buffer is explored up to MaxTracked entries.
MaxTracked == 3

\* The states of the history scenarios.
HistoryNames == StateNames \cup {"run"}

\* The sizes historySetMaxSize is called with.
Sizes == {Num(n) : n \in 0..MaxSize} \cup {NaN}

NextHistory ==
    \/ \E n \in HistoryNames : Add(n, {})
    \/ \E n \in HistoryNames :
           /\ Change(n, NoFunc, NoFunc, "data")
           /\ Len(stateHistory') <= MaxTracked
    \/ /\ AddWildcardTransition("go", "walk", NoFunc, NoFunc, NoFunc)
       /\ RecordCount' <= MaxFired
    \/ Trigger("go", "data") /\ Len(stateHistory') <= MaxTracked
    \/ HistoryEnable
    \/ HistoryDisable
    \/ \E size \in Sizes : HistorySetMaxSize(size)

SpecHistory == Init /\ [][NextHistory]_vars

----------------------------------------------------------------------------
(* SpecClock: the entry timestamp under change, setTime and the clock.      *)

\* The durations setTime is called with: a negative one, and ones up to one
\* more than the clock can read.
Times == (0 - 1)..(MaxClock + 1)

NextClock ==
    \/ \E n \in StateNames : Add(n, {})
    \/ \E n \in StateNames, l \in LeaveFuncs :
           Change(n, l, NoFunc, "data")
    \/ \E time \in Times : SetTime(time)
    \/ Tick

SpecClock == Init /\ [][NextClock]_vars

----------------------------------------------------------------------------
(* SpecLifecycle: a machine whose initial state may never be added, driven  *)
(* by change, trigger, enter, leave, the installed events and on.           *)

\* The state objects: an empty one, and one with both lifecycle callbacks
\* and a custom event.
FullObjects == {{}, {"enter", "leave", "update"}}

\* The events a default is set for.
LifecycleDefaults == {"update", "enter", "leave"}

\* The listeners on is called with.
Listeners == {"listener"}

NextLifecycle ==
    \/ \E n \in StateNames, o \in FullObjects : Add(n, o)
    \/ \E e \in LifecycleDefaults : EventSetDefaultMethod(e)
    \/ Dispatch("update")
    \/ \E d \in Datas : Enter(d)
    \/ \E d \in Datas : Leave(d)
    \/ \E c \in Listeners : On("state changed", c)
    \/ \E n \in StateNames, l \in LeaveFuncs, e \in EnterFuncs, d \in Datas :
           Change(n, l, e, d)
    \/ /\ AddWildcardTransition("go", "walk", NoFunc, NoFunc, NoFunc)
       /\ RecordCount' <= MaxFired
    \/ \E d \in Datas : Trigger("go", d)

SpecLifecycle == Init /\ [][NextLifecycle]_vars

----------------------------------------------------------------------------
(* SpecRegistry: states are added and added again with other state objects, *)
(* transitions are added, and the machine is driven by change and trigger;  *)
(* the inputs include the ones the operations reject.                       *)

\* The state objects: two that are accepted and one that is rejected for a
\* key that is the name of a field.
RegistryObjects == {{}, {"update"}, {"update", "state"}}

NextRegistry ==
    \/ \E n \in StateNames, o \in RegistryObjects : Add(n, o)
    \/ \E n \in Names, l \in LeaveFuncs : Change(n, l, NoFunc, "data")
    \/ \E src \in SourceArrays, dest \in DestStates :
           /\ AddTransition("addTransition", "go", FALSE, src, dest, NoFunc, NoFunc, NoFunc)
           /\ RecordCount' <= MaxRecords
    \/ \E dest \in DestStates :
           /\ AddWildcardTransition("go", dest, NoFunc, NoFunc, NoFunc)
           /\ RecordCount' <= MaxRecords
    \/ Trigger("go", "data")

SpecRegistry == Init /\ [][NextRegistry]_vars

----------------------------------------------------------------------------
(* SpecOrder: the order of the steps of a change, seen from its callbacks.  *)

NextOrder ==
    \/ \E n \in StateNames, o \in LifecycleObjects : Add(n, o)
    \/ \E n \in StateNames, l \in LeaveFuncs, e \in EnterFuncs, d \in Datas :
           ChangeObserved(n, l, e, d) /\ HistoryRoom
    \/ HistoryEnable
    \/ Tick

SpecOrder == Init /\ [][NextOrder]_vars

----------------------------------------------------------------------------
(* SpecThrow: callbacks that throw.  The state objects added under a name  *)
(* of ThrowingStates, the leave and enter functions "leaveThrows" and      *)
(* "enterThrows" and the condition "throws" throw when they are called.    *)

ThrowStateNames == {"walk"} \cup ThrowingStates
ThrowLeaveFuncs == LeaveFuncs \cup {"leaveThrows"}
ThrowEnterFuncs == {NoFunc, "enterThrows"}
ThrowSpecificConditions == {"returnsFalse", ThrowingCondition}
ThrowWildcardConditions == {NoFunc, ThrowingCondition}

NextThrow ==
    \/ \E n \in ThrowStateNames : Add(n, {"enter", "leave"})
    \/ \E n \in ThrowStateNames, l \in ThrowLeaveFuncs, e \in ThrowEnterFuncs, d \in Datas :
           Change(n, l, e, d) /\ HistoryRoom
    \/ \E c \in ThrowSpecificConditions :
           /\ AddTransition("addTransition", "go", FALSE, <<"walk">>, "trap", c, NoFunc, NoFunc)
           /\ RecordCount' <= MaxRecords
    \/ \E c \in ThrowWildcardConditions :
           /\ AddWildcardTransition("go", "walk", c, NoFunc, NoFunc)
           /\ RecordCount' <= MaxRecords
    \/ \E d \in Datas : Trigger("go", d) /\ HistoryRoom
    \/ HistoryEnable
    \/ Tick

SpecThrow == Init /\ [][NextThrow]_vars

----------------------------------------------------------------------------
(* SpecReentry: callbacks that call change.  The leave function            *)
(* "leaveReenters" and the enter function "enterReenters" call             *)
(* change(ReentryTarget) and return; they are given to change or stored in *)
(* a wildcard transition.                                                  *)

ReentryLeaveFuncs == {NoFunc, "leaveReenters"}
ReentryEnterFuncs == {NoFunc, "enterReenters"}

NextReentry ==
    \/ \E n \in HistoryNames : Add(n, {"enter", "leave"})
    \/ \E n \in StateNames, l \in ReentryLeaveFuncs, e \in ReentryEnterFuncs, d \in Datas :
           Change(n, l, e, d) /\ Len(stateHistory') <= MaxTracked
    \/ \E l \in ReentryLeaveFuncs, e \in ReentryEnterFuncs :
           /\ AddWildcardTransition("go", "walk", NoFunc, l, e)
           /\ RecordCount' <= MaxFired
    \/ \E d \in Datas : Trigger("go", d) /\ Len(stateHistory') <= MaxTracked
    \/ HistoryEnable

SpecReentry == Init /\ [][NextReentry]_vars

----------------------------------------------------------------------------
(* SpecWild: wildcard transitions to any name.  addWildcardTransition      *)
(* stores the destination as it is given, registered or not.               *)

NextWild ==
    \/ \E n \in StateNames : Add(n, {"enter", "leave"})
    \/ \E dest \in Names :
           /\ AddWildcardTransition("go", dest, NoFunc, NoFunc, NoFunc)
           /\ RecordCount' <= MaxFired
    \/ \E d \in Datas : Trigger("go", d) /\ HistoryRoom
    \/ HistoryEnable
    \/ Tick

SpecWild == Init /\ [][NextWild]_vars

----------------------------------------------------------------------------
(* change: claims C1 and C2 *)

\* The names registered with add.
Registered == DOMAIN stateObjects

\* C1: change(X) for a state name X that was never registered with add
\* always fails with the unknown-state error, invokes no callback and leaves
\* current state, previous state, history and entry timestamp unchanged.
C1_UnregisteredChangeFails ==
    [][\A X \in Names \ Registered, l \in LeaveFuncs, e \in EnterFuncs, d \in Datas :
           Change(X, l, e, d) =>
               /\ last'.result = ErrState
               /\ calls' = <<>>
               /\ UNCHANGED cursor]_vars

\* C1, where it fails: change to a never-registered name that plain objects
\* inherit has returned normally and moved the machine into it.
C1_InheritedNameReached ==
    /\ last.op = "change"
    /\ last.name \notin Registered
    /\ last.result = Ok
    /\ state = last.name

\* C2: when change(B) to a registered state B returns normally from current
\* state A (B = A included), B is the current state, A the previous state and
\* the entry timestamp is the clock reading, so getTime() is 0.
C2_ChangeCommits ==
    [][(last'.op = "change" /\ last'.name \in Registered /\ last'.result = Ok) =>
           /\ state' = last'.name
           /\ previousState' = state
           /\ stateStartTime' = now'
           /\ getTime' = 0]_vars

\* C2: a change between two different registered states has returned
\* normally after the clock advanced.
C2_Witness ==
    /\ last.op = "change"
    /\ last.result = Ok
    /\ last.name \in Registered
    /\ previousState \in Registered
    /\ previousState # state
    /\ now > 0
    /\ getTime = 0

----------------------------------------------------------------------------
(* trigger: claims C3 to C6 *)

\* A record whose condition is absent or returns true.
Admits(record) == record.condition \in {NoFunc, "returnsTrue"}

\* The positions of the records of a list that admit.
Admitting(records) == {i \in 1..Len(records) : Admits(records[i])}

\* The least position of a non-empty set of positions.
Least(positions) == CHOOSE i \in positions : \A j \in positions : i <= j

\* The state a record leads to from the current state.
Target(record) ==
    IF record.destState = "=" THEN state ELSE record.destState

\* The calls of a log that are calls of the given function.
CallsOf(log, fn) == SelectSeq(log, LAMBDA c : c.fn = fn)

\* C3: trigger(T) fires a specific record of the current state whenever one
\* admits, without calling any condition of the wildcard list, even when a
\* wildcard record admits too; it fires a wildcard record only when the
\* specific list is absent or none of its records admits.
C3_SpecificBeforeWildcard ==
    [][last'.op = "trigger" =>
           LET S == SpecificRecords(last'.name)
               W == WildcardRecords(last'.name)
           IN  /\ Admitting(S) # {} =>
                      /\ last'.list = "specific"
                      /\ \A k \in 1..Len(calls') : calls'[k].owner # "wildcard"
                      /\ last'.result = Ok =>
                             state' \in {Target(S[i]) : i \in Admitting(S)}
               /\ (Admitting(S) = {} /\ Admitting(W) # {}) =>
                      /\ last'.list = "wildcard"
                      /\ last'.result = Ok =>
                             state' \in {Target(W[i]) : i \in Admitting(W)}]_vars

\* C3: a specific record has fired although a wildcard record of the same
\* name admits and leads to another state.
C3_Witness ==
    /\ last.op = "trigger"
    /\ last.list = "specific"
    /\ last.result = Ok
    /\ \E j \in 1..Len(WildcardRecords(last.name)) :
           /\ Admits(WildcardRecords(last.name)[j])
           /\ WildcardRecords(last.name)[j].destState # state

\* The conditions of the first n records of a list, as the calls a scan of
\* them makes.
Scanned(records, listName, n) ==
    SelectSeq([i \in 1..n |-> [fn |-> "condition", owner |-> listName, idx |-> i,
                               arg |-> records[i].condition]],
              LAMBDA c : c.arg # NoFunc)

\* C4: trigger fires exactly the first record, in registration order, of the
\* list that admits: the conditions of the records before it and its own are
\* called in order, no condition of a later record is called, and the call
\* performs at most one change.
C4_FirstAdmittingRecordFires ==
    [][last'.op = "trigger" =>
           LET S == SpecificRecords(last'.name)
               W == WildcardRecords(last'.name)
               k == last'.idx
           IN  /\ last'.list = "specific" =>
                      /\ k = Least(Admitting(S))
                      /\ CallsOf(calls', "condition") = Scanned(S, "specific", k)
               /\ last'.list = "wildcard" =>
                      /\ k = Least(Admitting(W))
                      /\ CallsOf(calls', "condition") =
                             Scanned(S, "specific", Len(S)) \o Scanned(W, "wildcard", k)
               /\ last'.list = "none" =>
                      /\ Admitting(S) = {} /\ Admitting(W) = {}
                      /\ calls' = Scanned(S, "specific", Len(S))
                                      \o Scanned(W, "wildcard", Len(W))
               /\ Len(CallsOf(calls', "leave")) <= 1
               /\ Len(CallsOf(calls', "enter")) <= 1
               /\ (last'.list # "none" /\ last'.result = Ok) =>
                      /\ previousState' = state
                      /\ state' = Target((IF last'.list = "specific" THEN S ELSE W)[k])]_vars

\* C4: the second record of a list has fired after the condition of the
\* first returned false and its own returned true, and a third call of a
\* condition was not made.
C4_Witness ==
    /\ last.op = "trigger"
    /\ last.idx = 2
    /\ last.result = Ok
    /\ Len(calls) = 4
    /\ calls[1].arg = "returnsFalse"
    /\ calls[2].arg = "returnsTrue"
    /\ calls[3].fn = "leave"
    /\ calls[4].fn = "enter"

\* C5: when no record of the specific list of the current state and no
\* wildcard record of the name admits, trigger returns normally, invokes no
\* leave or enter callback and leaves current state, previous state, history
\* and entry timestamp unchanged.
C5_NoAdmittingRecordIsNoOp ==
    [][(/\ last'.op = "trigger"
        /\ Admitting(SpecificRecords(last'.name)) = {}
        /\ Admitting(WildcardRecords(last'.name)) = {}) =>
           /\ last'.result = Ok
           /\ \A k \in 1..Len(calls') : calls'[k].fn = "condition"
           /\ UNCHANGED cursor]_vars

\* C5: a trigger whose only candidates have conditions that return false has
\* returned, with a previous state, a history and an earlier entry timestamp
\* in place.
C5_Witness ==
    /\ last.op = "trigger"
    /\ last.list = "none"
    /\ last.result = Ok
    /\ calls # <<>>
    /\ previousState # "null"
    /\ stateHistory # <<>>
    /\ stateStartTime < now

\* The record the last trigger fired, read from the tables (which no
\* trigger changes), given the state the trigger started in.
FiredRecord(from) ==
    IF last.list = "specific"
    THEN stateTransitions[from][last.name][last.idx]
    ELSE wildcardTransitions[last.name][last.idx]

\* C6: when trigger(T, data) fires a record with destination D, leave
\* function L and enter function E from current state A, its result, the
\* callbacks it invokes after the conditions, and the cursor it leaves are
\* those of change(D', L, E, data), where D' is A if D is the reflexive marker
\* and D otherwise.  With idle and walk added with enter and leave and a
\* record from idle to walk without functions, trigger from idle calls
\* idle.leave, then walk.enter, and ends in walk with idle as previous state.
C6_TriggerIsChange ==
    [][(last'.op = "trigger" /\ last'.list # "none") =>
           LET A == state
               r == IF last'.list = "specific"
                    THEN stateTransitions[A][last'.name][last'.idx]
                    ELSE wildcardTransitions[last'.name][last'.idx]
               direct == change(IF r.destState = "=" THEN A ELSE r.destState,
                                r.leaveFunc, r.enterFunc, last'.data)
           IN  /\ last'.result = direct.result
               /\ SubSeq(calls', Len(calls') - Len(direct.calls) + 1, Len(calls'))
                      = direct.calls
               /\ \A k \in 1..(Len(calls') - Len(direct.calls)) :
                      calls'[k].fn = "condition"
               /\ state' = direct.state
               /\ previousState' = direct.previousState
               /\ stateHistory' = direct.stateHistory
               /\ stateStartTime' = direct.stateStartTime
               /\ (/\ A = "idle"
                   /\ {"idle", "walk"} \subseteq Registered
                   /\ r = TransitionRecord("walk", NoFunc, NoFunc, NoFunc)) =>
                      /\ last'.result = Ok
                      /\ calls' = <<Call("leave", "idle", 0, "undefined"),
                                    Call("enter", "walk", 0, "undefined")>>
                      /\ state' = "walk"
                      /\ previousState' = "idle"]_vars

\* C6: trigger has fired a reflexive record that carries a leave function
\* and no enter function: the leave function and then the enter callback of
\* the state were called, and the state is its own previous state.
C6_Witness ==
    /\ last.op = "trigger"
    /\ last.list # "none"
    /\ last.result = Ok
    /\ state = previousState
    /\ FiredRecord(state).destState = "="
    /\ calls = <<Call("leaveFunc", "change", 0, "data"),
                 Call("enter", state, 0, "undefined")>>
    /\ stateHistory = <<state>>
    /\ stateStartTime = now
    /\ now > 0

----------------------------------------------------------------------------
(* addTransition: claims C7 and C8 *)

\* C7: for a registered state S, addReflexiveTransition(T, S) succeeds and
\* registers a record from S back to S (a following trigger(T) in S then
\* performs the change from S to S).
C7_ReflexiveTransitionIsAdded ==
    [][last'.op = "addReflexiveTransition" =>
           \A S \in Registered, l \in LeaveFuncs, e \in EnterFuncs :
               AddReflexiveTransition(last'.name, S, NoFunc, l, e) =>
                   /\ last'.result = Ok
                   /\ S \in DOMAIN stateTransitions'
                   /\ last'.name \in DOMAIN stateTransitions'[S]
                   /\ \E i \in 1..Len(stateTransitions'[S][last'.name]) :
                          stateTransitions'[S][last'.name][i].destState
                              \in {S, SNOWSTATE_REFLEXIVE_TRANSITION_NAME}]_vars

\* C7, where it fails: addReflexiveTransition for a registered source has
\* thrown the error for an unknown destination state.
C7_ReflexiveTransitionRejected ==
    /\ last.op = "addReflexiveTransition"
    /\ last.result = ErrDest

\* The errors for a state that is not registered.
UnknownStateErrors == {ErrState, ErrSource, ErrDest}

\* C8: addTransition with an array of source names fails with an
\* unknown-state error if a source or the destination was never registered,
\* and then leaves both transition tables as they were.
C8_UnregisteredStateRejected ==
    [][last'.op = "addTransition" =>
           \A src \in SourceArrays, dest \in DestStates,
              l \in LeaveFuncs, e \in EnterFuncs :
               (/\ AddTransition("addTransition", last'.name, FALSE, src, dest, NoFunc, l, e)
                /\ \/ dest \notin Registered
                   \/ \E i \in 1..Len(src) : src[i] \notin Registered) =>
                   /\ last'.result \in UnknownStateErrors
                   /\ UNCHANGED tables]_vars

\* C8, where it fails: addTransition has returned normally and appended a
\* record under a source name that was never registered.
C8_UnregisteredSourceAccepted ==
    /\ last.op = "addTransition"
    /\ last.result = Ok
    /\ \E s \in DOMAIN stateTransitions : s \notin Registered

----------------------------------------------------------------------------
(* Events: claims C9 and C10 *)

\* The names of the operations and properties of the engine, the builtin
\* enter and leave excepted.
ReservedNames == (PrototypeMethods \cup InstanceFields) \ {"enter", "leave"}

\* C9: add and eventSetDefaultMethod fail with the name-collision error
\* whenever an event name is the name of an operation or property of the
\* engine, and then register no state, record no default and install no
\* event.
C9_ReservedNamesRejected ==
    [][/\ last'.op = "add" =>
              \A n \in StateNames, o \in EventObjects :
                  (Add(n, o) /\ o \cap ReservedNames # {}) =>
                      (last'.result = ErrKey /\ UNCHANGED registry)
       /\ last'.op = "eventSetDefaultMethod" =>
              \A e \in DefaultNames :
                  (EventSetDefaultMethod(e) /\ e \in ReservedNames) =>
                      (last'.result = ErrKey /\ UNCHANGED registry)]_vars

\* C9, where it fails: a state whose object has a key named like a method of
\* the engine has been registered.
C9_MethodNameAccepted ==
    /\ last.op = "add"
    /\ last.result = Ok
    /\ last.keys \cap (PrototypeMethods \ {"enter", "leave"}) # {}
    /\ stateObjects[last.name] = last.keys

\* C10: dispatching an installed event e returns normally and invokes the
\* callback of the current state for e if it has one, else the default for e
\* if there is one, else nothing; eventExists(e) is DEFINED, DEFAULT and
\* NOT_DEFINED respectively; and the dispatch leaves the cursor unchanged.
C10_DispatchFollowsEventExists ==
    [][last'.op = "dispatch" =>
           LET e == last'.name
               own == state \in Registered /\ e \in stateObjects[state]
               default == e \in defaultEventMethods
           IN  /\ last'.result = Ok
               /\ calls' = IF own THEN <<Call(e, state, 0, "undefined")>>
                           ELSE IF default
                           THEN <<Call(e, "defaultEventMethods", 0, "undefined")>>
                           ELSE <<>>
               /\ eventExists(e) = IF own THEN DEFINED
                                   ELSE IF default THEN DEFAULT
                                   ELSE NOT_DEFINED
               /\ UNCHANGED cursor]_vars

\* C10, where it fails: the dispatch of an event that eventExists reports as
\* DEFAULT has thrown a TypeError, the current state being the initial state
\* that was never added.
C10_DispatchThrows ==
    /\ last.op = "dispatch"
    /\ last.result = TypeError
    /\ state = InitialState
    /\ state \notin Registered
    /\ eventExists(last.name) = DEFAULT

----------------------------------------------------------------------------
(* History: claims C11 to C14 *)

\* The n newest entries of h, oldest first; all of h if it has fewer.
Newest(h, n) ==
    LET m == IF Len(h) < n THEN Len(h) ELSE n
    IN  [i \in 1..m |-> h[Len(h) - m + i]]

\* The last operation committed a change: a change that returned normally,
\* or a trigger that fired a record and returned normally.
Committed(l) ==
    /\ l.result = Ok
    /\ \/ l.op = "change"
       \/ l.op = "trigger" /\ l.list # "none"

\* C11: with the maximum size at n, a committed change made while tracking
\* is enabled turns the history into the n newest entries of the history
\* with the state being left appended (never the destination); a change
\* made while tracking is disabled, historyEnable and historyDisable leave
\* the history as it is; and the history is empty until the initial state
\* has been left.  With n = 2, A -> B -> C -> D yields [B, C].
C11_HistoryTracksSources ==
    [][/\ (Committed(last') /\ ~maxHistorySize.nan) =>
              stateHistory' =
                  IF isHistoryEnabled
                  THEN Newest(Append(stateHistory, state), maxHistorySize.value)
                  ELSE stateHistory
       /\ last'.op \in {"historyEnable", "historyDisable"} =>
              stateHistory' = stateHistory
       /\ previousState = "null" => stateHistory = <<>>
       /\ (/\ Committed(last') /\ isHistoryEnabled /\ maxHistorySize = Num(2)
           /\ state = "run" /\ stateHistory = <<"idle", "walk">>) =>
              stateHistory' = <<"walk", "run">>]_vars

\* C11: with the maximum size at 2 and tracking enabled, the third tracked
\* change has left run for idle and the history is [walk, run].
C11_Witness ==
    /\ last.op = "change"
    /\ last.result = Ok
    /\ isHistoryEnabled
    /\ maxHistorySize = Num(2)
    /\ state = "idle"
    /\ previousState = "run"
    /\ stateHistory = <<"walk", "run">>

\* C12: in every reachable state historyGetMaxSize() >= 1 and the length of
\* historyGet() is at most historyGetMaxSize().
C12_HistoryWithinCap ==
    /\ GreaterEq(maxHistorySize, Num(1))
    /\ GreaterEq(maxHistorySize, Num(Len(stateHistory)))

\* C12, where it fails: historySetMaxSize(NaN) has returned normally, the
\* maximum size is NaN, and tracked changes go on growing the history, which
\* no comparison with the maximum size bounds any more.
C12_HistoryPastCap ==
    /\ maxHistorySize = NaN
    /\ Committed(last)
    /\ Len(stateHistory) > MaxSize

\* C13: historySetMaxSize(n) with n < 1 fails with the invalid-size error and
\* leaves the history and the maximum size unchanged.
C13_SizeBelowOneRejected ==
    [][(/\ last'.op = "historySetMaxSize"
        /\ ~last'.size.nan
        /\ last'.size.value < 1) =>
           /\ last'.result = ErrHistorySize
           /\ UNCHANGED <<stateHistory, maxHistorySize>>]_vars

\* C13: historySetMaxSize(0) has failed on a machine whose history holds
\* entries and whose maximum size had been set before.
C13_Witness ==
    /\ last.op = "historySetMaxSize"
    /\ last.size = Num(0)
    /\ last.result = ErrHistorySize
    /\ stateHistory # <<>>
    /\ maxHistorySize = Num(2)

\* C14: historySetMaxSize(n) with n >= 1 returns normally, sets the maximum
\* size to n, keeps exactly the n newest entries in their order when the
\* history holds more than n, leaves the history unchanged otherwise, and
\* changes neither the enabled flag nor the current state, previous state
\* and entry timestamp.
C14_SizeSetAndHistoryTrimmed ==
    [][(/\ last'.op = "historySetMaxSize"
        /\ ~last'.size.nan
        /\ last'.size.value >= 1) =>
           /\ last'.result = Ok
           /\ maxHistorySize' = last'.size
           /\ stateHistory' = Newest(stateHistory, last'.size.value)
           /\ Len(stateHistory) > last'.size.value =>
                  Len(stateHistory') = last'.size.value
           /\ Len(stateHistory) <= last'.size.value =>
                  stateHistory' = stateHistory
           /\ UNCHANGED <<isHistoryEnabled, state, previousState, stateStartTime>>]_vars

\* C14: historySetMaxSize(1) has returned on a machine that had left two
\* different states, and the history holds the state left last only.
C14_Witness ==
    /\ last.op = "historySetMaxSize"
    /\ last.size = Num(1)
    /\ last.result = Ok
    /\ maxHistorySize = Num(1)
    /\ isHistoryEnabled
    /\ state = "run"
    /\ previousState = "walk"
    /\ stateHistory = <<"walk">>

----------------------------------------------------------------------------
(* Time: claim C15 *)

\* C15: setTime(ms) with ms < 0 fails with the invalid-time error and leaves
\* the entry timestamp unchanged; setTime(ms) with ms >= 0 returns normally
\* and sets the entry timestamp to the clock reading minus ms, so that
\* getTime() at that reading is ms; and with a clock that never goes back
\* getTime() is never negative.
C15_SetTimeAndGetTime ==
    [][/\ (last'.op = "setTime" /\ last'.time < 0) =>
              /\ last'.result = ErrTime
              /\ stateStartTime' = stateStartTime
       /\ (last'.op = "setTime" /\ last'.time >= 0) =>
              /\ last'.result = Ok
              /\ stateStartTime' = now' - last'.time
              /\ getTime' = last'.time
       /\ getTime >= 0
       /\ getTime' >= 0]_vars

\* C15: setTime has set a duration longer than the clock reading, after the
\* clock advanced and a change reset the timestamp.
C15_Witness ==
    /\ last.op = "setTime"
    /\ last.result = Ok
    /\ last.time > now
    /\ now > 0
    /\ previousState # "null"
    /\ getTime = last.time

----------------------------------------------------------------------------
(* Notifications, callback data and the initial state: claims C16 to C18 *)

\* The arguments of the notification of a change into `to` from `from`
\* performed by the operation l.
Notification(to, from, l) ==
    <<to, from, IF l.op = "trigger" THEN l.name ELSE "undefined">>

\* C16: on(listener) registers the listener, and a successful change made
\* right after it calls the listener within the change with the destination
\* state, the source state and the name of the triggered transition
\* (undefined for a direct change); a failing change notifies nobody.
C16_ChangeNotifiesListeners ==
    [][/\ last'.op = "on" => last'.result = Ok
       /\ (last.op = "on" /\ Committed(last')) =>
              \E k \in 1..Len(calls') :
                  /\ calls'[k].fn = "state changed"
                  /\ calls'[k].owner = last.callback
                  /\ calls'[k].arg = Notification(state', state, last')
       /\ (last'.op \in {"change", "trigger"} /\ last'.result # Ok) =>
              \A k \in 1..Len(calls') : calls'[k].fn # "state changed"]_vars

\* C16, where it fails: on("state changed", listener) has thrown a
\* TypeError on a machine whose current state is registered.
C16_OnThrows ==
    /\ last.op = "on"
    /\ last.name = "state changed"
    /\ last.result = TypeError
    /\ state \in Registered

\* C17: the data given to a change that returns normally is the argument of
\* every leave and enter callback the change invokes, the registered
\* callbacks of the states as well as the functions supplied with the call.
C17_DataReachesCallbacks ==
    [][(last'.op = "change" /\ last'.result = Ok) =>
           \A k \in 1..Len(calls') : calls'[k].arg = last'.data]_vars

\* C17, where it fails: a change with data has called the supplied leave
\* function with the data and the registered enter callback of the
\* destination without any argument.
C17_RegisteredCallbackWithoutData ==
    /\ last.op = "change"
    /\ last.result = Ok
    /\ last.data = "data"
    /\ calls = <<Call("leaveFunc", "change", 0, "data"),
                 Call("enter", state, 0, "undefined")>>

\* C18: while the machine is in an initial state that was never added,
\* change(B) without functions to a registered state B returns normally,
\* invokes no leave callback and makes B the current and the initial name
\* the previous state; and enter(), leave() and the installed events return
\* normally, run at most a default and leave the cursor unchanged.
C18_UnregisteredInitialStateUsable ==
    [][(state = InitialState /\ InitialState \notin Registered) =>
           /\ (/\ last'.op = "change"
               /\ last'.name \in Registered
               /\ last'.leaveFunc = NoFunc
               /\ last'.enterFunc = NoFunc) =>
                  /\ last'.result = Ok
                  /\ state' = last'.name
                  /\ previousState' = InitialState
                  /\ \A k \in 1..Len(calls') : calls'[k].fn # "leave"
           /\ last'.op \in {"dispatch", "enter", "leave"} =>
                  /\ last'.result = Ok
                  /\ \A k \in 1..Len(calls') : calls'[k].owner = "defaultEventMethods"
                  /\ UNCHANGED cursor]_vars

\* C18, where it fails: change(B) without functions to a registered state B
\* has thrown a TypeError in the initial state, which was never added.
C18_ChangeThrows ==
    /\ last.op = "change"
    /\ last.name \in Registered
    /\ last.leaveFunc = NoFunc
    /\ last.enterFunc = NoFunc
    /\ last.result = TypeError
    /\ state = InitialState
    /\ InitialState \notin Registered

----------------------------------------------------------------------------
(* Registration is permanent: claim C19 *)

\* The list `old` is a prefix of the list `new`.
IsPrefix(old, new) ==
    Len(old) <= Len(new) /\ SubSeq(new, 1, Len(old)) = old

\* C19: stateExists(S) is true right after a successful add(S, ...), and no
\* operation, failing or not, removes a registered state or a registered
\* transition: a state that exists goes on existing, and every list of
\* transition records keeps its records.
C19_RegistrationIsPermanent ==
    [][/\ \A S \in Names :
              (last'.op = "add" /\ last'.name = S /\ last'.result = Ok) =>
                  stateExists(S)'
       /\ \A S \in Names : stateExists(S) => stateExists(S)'
       /\ Registered \subseteq Registered'
       /\ \A s \in DOMAIN stateTransitions :
              /\ s \in DOMAIN stateTransitions'
              /\ \A n \in DOMAIN stateTransitions[s] :
                     /\ n \in DOMAIN stateTransitions'[s]
                     /\ IsPrefix(stateTransitions[s][n], stateTransitions'[s][n])
       /\ \A n \in DOMAIN wildcardTransitions :
              /\ n \in DOMAIN wildcardTransitions'
              /\ IsPrefix(wildcardTransitions[n], wildcardTransitions'[n])]_vars

\* C19: a registered state has been added again with a state object that
\* was rejected, after the other state was added, transitions were added
\* and the machine changed state; both states exist.
C19_Witness ==
    /\ last.op = "add"
    /\ last.result = ErrKey
    /\ last.name \in Registered
    /\ Registered = StateNames
    /\ \A S \in StateNames : stateExists(S)
    /\ RecordCount > 1
    /\ previousState # "null"

----------------------------------------------------------------------------
(* The order of the steps of a change: claim C20 *)

\* The positions of the log at which a leave (an enter) callback was called.
LeaveCalls(log) == {k \in 1..Len(log) : log[k].call.fn \in {"leave", "leaveFunc"}}
EnterCalls(log) == {k \in 1..Len(log) : log[k].call.fn \in {"enter", "enterFunc"}}

\* C20: within a change(B) from A that returns normally, the leave callback
\* observes A as current state and the previous state and the history as
\* they were before the change; the enter callback observes B as current
\* state, A as previous state and the history the change leaves, which ends
\* with A if tracking is enabled; every leave call precedes every enter
\* call; and the entry timestamp is the clock reading.
C20_StepsInOrder ==
    [][(last'.op = "change" /\ last'.result = Ok) =>
           /\ \A k \in LeaveCalls(calls') :
                  calls'[k].sees = Seen(state, previousState, stateHistory)
           /\ \A k \in EnterCalls(calls') :
                  /\ calls'[k].sees = Seen(last'.name, state, stateHistory')
                  /\ calls'[k].sees.state = state'
                  /\ calls'[k].sees.previousState = previousState'
                  /\ isHistoryEnabled =>
                         /\ calls'[k].sees.stateHistory # <<>>
                         /\ calls'[k].sees.stateHistory[Len(stateHistory')] = state
           /\ \A k \in LeaveCalls(calls'), j \in EnterCalls(calls') : k < j
           /\ LeaveCalls(calls') \cup EnterCalls(calls') = 1..Len(calls')
           /\ stateStartTime' = now']_vars

\* C20: a tracked change between two different states has called the
\* registered leave callback and then the registered enter callback, and the
\* two observed different current states, previous states and histories.
C20_Witness ==
    /\ last.op = "change"
    /\ last.result = Ok
    /\ isHistoryEnabled
    /\ previousState \in Registered
    /\ Len(calls) = 2
    /\ calls[1].call.fn = "leave"
    /\ calls[2].call.fn = "enter"
    /\ calls[1].sees.state # calls[2].sees.state
    /\ calls[1].sees.previousState # calls[2].sees.previousState
    /\ calls[1].sees.stateHistory # calls[2].sees.stateHistory

----------------------------------------------------------------------------
(* The candidates of the two phases of a change: claim C21 *)

\* The callbacks of the log, as pairs of the function and its owner.
Invoked(log) == [k \in 1..Len(log) |-> <<log[k].fn, log[k].owner>>]

\* The one candidate of a phase (`fn` is "leave" or "enter") for the state
\* `of`: the supplied function, else the registered callback of the state,
\* else none.
Candidate(fn, of, supplied) ==
    IF supplied # NoFunc THEN <<(<<supplied, "change">>)>>
    ELSE IF of \in Registered /\ fn \in stateObjects[of] THEN <<(<<fn, of>>)>>
    ELSE <<>>

\* C21: a change that returns normally invokes, for its leave phase, the
\* supplied leave function if there is one, else the registered leave
\* callback of the state being left if it has one, else nothing, and
\* likewise for its enter phase and the destination state; it never invokes
\* a default method set for "enter" or "leave", while the public enter()
\* and leave() invoke the default when the current state has no callback.
C21_OneCandidatePerPhase ==
    [][/\ (last'.op = "change" /\ last'.result = Ok) =>
              /\ Invoked(calls') =
                     Candidate("leave", state, last'.leaveFunc)
                         \o Candidate("enter", last'.name, last'.enterFunc)
              /\ \A k \in 1..Len(calls') : calls'[k].owner # "defaultEventMethods"
       /\ \A fn \in {"enter", "leave"} :
              (/\ last'.op = fn
               /\ state \in Registered
               /\ fn \notin stateObjects[state]
               /\ fn \in defaultEventMethods) =>
                  /\ last'.result = Ok
                  /\ Invoked(calls') = <<(<<fn, "defaultEventMethods">>)>>]_vars

\* C21: with default methods set for "enter" and for "leave", a change
\* without leave and enter functions has left a registered state that has
\* no leave callback for a registered state that has no enter callback,
\* has returned, and has invoked nothing: neither default was called.
C21_Witness ==
    /\ last.op = "change"
    /\ last.result = Ok
    /\ last.leaveFunc = NoFunc
    /\ last.enterFunc = NoFunc
    /\ {"enter", "leave"} \subseteq defaultEventMethods
    /\ state \in Registered
    /\ "enter" \notin stateObjects[state]
    /\ previousState \in Registered
    /\ "leave" \notin stateObjects[previousState]
    /\ state # previousState
    /\ calls = <<>>

----------------------------------------------------------------------------
(* Callbacks that throw: claims C22 and C23 *)

\* The candidate of a phase throws when it is called.
CandidateThrows(candidate) ==
    /\ candidate # <<>>
    /\ \/ candidate[1][1] \in ThrowingFuncs
       \/ candidate[1][2] \in ThrowingStates

\* C22: when the leave callback of a change throws, whether it is the
\* supplied leave function or the registered callback of the state being
\* left, the change ends with that exception, the current state, the
\* previous state, the history and the entry timestamp are as before, and
\* the leave callback is the only callback invoked; when a condition throws
\* during trigger, the trigger ends with that exception at that condition,
\* the same four fields are as before, and no leave or enter callback is
\* invoked.
C22_ThrowingLeaveAborts ==
    [][/\ (/\ last'.op = "change"
           /\ InStateObjects(last'.name)
           /\ CandidateThrows(Candidate("leave", state, last'.leaveFunc))) =>
              /\ last'.result = Thrown
              /\ UNCHANGED cursor
              /\ Invoked(calls') = Candidate("leave", state, last'.leaveFunc)
       /\ (/\ last'.op = "trigger"
           /\ \E k \in 1..Len(calls') :
                  calls'[k].fn = "condition" /\ calls'[k].arg = ThrowingCondition) =>
              /\ last'.result = Thrown
              /\ UNCHANGED cursor
              /\ \A k \in 1..Len(calls') : calls'[k].fn = "condition"
              /\ calls'[Len(calls')].arg = ThrowingCondition]_vars

\* C22: with tracking enabled and the clock past the entry timestamp, a
\* change without a leave function has ended with the exception of the
\* registered leave callback of the current state, the only callback called.
C22_Witness ==
    /\ last.op = "change"
    /\ last.result = Thrown
    /\ last.leaveFunc = NoFunc
    /\ last.name # state
    /\ state \in ThrowingStates
    /\ calls = <<Call("leave", state, 0, "undefined")>>
    /\ isHistoryEnabled
    /\ now > stateStartTime

\* C23: when the leave phase of change(B) from A returns and the enter
\* callback throws, whether it is the supplied enter function or the
\* registered callback of B, the change ends with that exception and the
\* current state is B, the previous state A, the entry timestamp the clock
\* reading, and the history has A appended if tracking is enabled and is as
\* before if it is not.
C23_ThrowingEnterKeepsChange ==
    [][(/\ last'.op = "change"
        /\ InStateObjects(last'.name)
        /\ last'.leaveFunc # NoFunc \/ InStateObjects(state)
        /\ ~CandidateThrows(Candidate("leave", state, last'.leaveFunc))
        /\ CandidateThrows(Candidate("enter", last'.name, last'.enterFunc))) =>
           /\ last'.result = Thrown
           /\ state' = last'.name
           /\ previousState' = state
           /\ stateStartTime' = now
           /\ stateHistory' = IF isHistoryEnabled
                              THEN Append(stateHistory, state)
                              ELSE stateHistory]_vars

\* C23: with tracking enabled and the clock past the old entry timestamp,
\* a change from walk has ended with the exception of the registered enter
\* callback of the destination, which is now the current state, with walk
\* the previous state and the last entry of the history.
C23_Witness ==
    /\ last.op = "change"
    /\ last.result = Thrown
    /\ last.enterFunc = NoFunc
    /\ state \in ThrowingStates
    /\ state = last.name
    /\ previousState = "walk"
    /\ stateHistory = <<"walk">>
    /\ stateStartTime = MaxClock
    /\ calls = <<Call("leave", "walk", 0, "undefined"), Call("enter", state, 0, "undefined")>>

----------------------------------------------------------------------------
(* Callbacks that call change: claim C24 *)

\* The destination and the leave and enter functions of the change the
\* operation `l` performed: the arguments of a direct call, or the fields of
\* the wildcard record a trigger fired.
Performed(l) ==
    IF l.op = "change"
    THEN [dest |-> l.name, leaveFunc |-> l.leaveFunc, enterFunc |-> l.enterFunc]
    ELSE LET record == WildcardRecords(l.name)[l.idx]
         IN  [dest |-> record.destState, leaveFunc |-> record.leaveFunc,
              enterFunc |-> record.enterFunc]

\* The states left by the change calls the leave callback and the enter
\* callback of the change `c` make, and the state that is current when the
\* leave callback of `c` has returned.
LeftInLeave(c) == IF c.leaveFunc \in ReenteringFuncs THEN <<state>> ELSE <<>>
LeftInEnter(c) == IF c.enterFunc \in ReenteringFuncs THEN <<c.dest>> ELSE <<>>
CurrentAfterLeave(c) == IF c.leaveFunc \in ReenteringFuncs THEN ReentryTarget ELSE state

\* C24 as stated: a change, direct or fired by trigger, that returns
\* normally records the state that was current when the call began, also
\* when its leave or enter callback calls change: with tracking enabled the
\* history gains the states the leave callback's calls left, then the state
\* current when the call began, then the states the enter callback's calls
\* left; and the previous state is the state current when the call began,
\* unless the enter callback called change, which records the destination.
C24_RecordsStateAtCallBegin ==
    [][Committed(last') =>
           LET c == Performed(last')
           IN  /\ isHistoryEnabled =>
                      stateHistory' = stateHistory \o LeftInLeave(c) \o <<state>>
                                          \o LeftInEnter(c)
               /\ previousState' = IF c.enterFunc \in ReenteringFuncs
                                    THEN c.dest
                                    ELSE state]_vars

\* C24, amended: a change, direct or fired by trigger, that returns
\* normally records the state that is current when its leave callback has
\* returned, which is the state current when the call began unless the
\* leave callback called change: with tracking enabled the history gains
\* the states the leave callback's calls left, then the state current when
\* the leave callback returned, then the states the enter callback's calls
\* left; and the previous state is the state current when the leave
\* callback returned, unless the enter callback called change, which
\* records the destination.
C24_RecordsStateAfterLeave ==
    [][Committed(last') =>
           LET c == Performed(last')
           IN  /\ isHistoryEnabled =>
                      stateHistory' = stateHistory \o LeftInLeave(c)
                                          \o <<CurrentAfterLeave(c)>> \o LeftInEnter(c)
               /\ previousState' = IF c.enterFunc \in ReenteringFuncs
                                    THEN c.dest
                                    ELSE CurrentAfterLeave(c)]_vars

\* C24: with tracking enabled, a change to walk whose leave function called
\* change(run) has returned: the call it made left idle for run, and the
\* outer call recorded run as the previous state and in the history.
C24_Witness ==
    /\ last.op = "change"
    /\ last.result = Ok
    /\ last.leaveFunc = "leaveReenters"
    /\ last.enterFunc = NoFunc
    /\ state = "walk"
    /\ previousState = ReentryTarget
    /\ stateHistory = <<"idle", ReentryTarget>>

----------------------------------------------------------------------------
(* The machine stays in known states: claim C25 *)

\* The names the machine may be in: the one given to the constructor and
\* the ones registered with add.
Known == {InitialState} \cup Registered

\* C25: after every operation the current state is the name given to the
\* constructor or a name registered with add, and the previous state is
\* null or such a name; and the trigger of a wildcard transition whose
\* destination is not registered fails with the unknown-state error and
\* leaves the current state, the previous state, the history and the entry
\* timestamp as they were.
C25_StaysInKnownStates ==
    [][/\ state' \in Known'
       /\ previousState' \in {"null"} \cup Known'
       /\ (/\ last'.op = "trigger"
           /\ last'.list = "wildcard"
           /\ WildcardRecords(last'.name)[last'.idx].destState \notin Registered) =>
              /\ last'.result = ErrState
              /\ UNCHANGED cursor]_vars

\* C25: a trigger has fired a wildcard transition whose destination was
\* never registered and has returned normally: the machine is in the state
\* "toString", which add was never called with.
C25_Witness ==
    /\ last.op = "trigger"
    /\ last.list = "wildcard"
    /\ last.result = Ok
    /\ state = "toString"
    /\ state \notin Known
    /\ previousState \in Registered

====
